---------------------------- MODULE Spec2Model ----------------------------
(***************************************************************************)
(* A model of ec2grep (src/ec2grep/__init__.py): the instance matcher,     *)
(* the selection prompt, the ssh/scp commands and the dispatcher.          *)
(*                                                                         *)
(* Python values are modelled as follows.  A str is a sequence of          *)
(* one-character strings ("1.2" is <<"1", ".", "2">>), None is the token   *)
(* None below (no str equals it), a dict is a record whose DOMAIN is the   *)
(* set of keys present, a list is a sequence.  An instance is denoted by   *)
(* its InstanceId; Dict(i) is the dict describe_instances returns for it.  *)
(*                                                                         *)
(* Four specifications share the module:                                   *)
(*   SpecMatch     match_instances with its thread pool                    *)
(*   SpecPrompt    get_hosts_choice / read_numbers                         *)
(*   Spec          the ssh and scp commands, from the flags to the last    *)
(*                 child process                                           *)
(*   SpecParallel  the parallel branch of run_op_for_hosts with the        *)
(*                 OutputConsumer threads, line by line                    *)
(***************************************************************************)
EXTENDS Integers, Sequences, FiniteSets, TLC

VARIABLES
    \* ---- match_instances
    responses,    \* the inventory API's answer to each attribute query
    qstate,       \* each submitted query: "idle", "queued", "running", "done"
    future,       \* each query's outcome once done
    doneOrder,    \* the attributes in the order their queries completed
    mpc,          \* match_instances: "idle", "mapping", "returned", "raised"
    call,         \* which of the successive calls is under way
    result,       \* what the current call returned
    firstResult,  \* what the first call returned
    \* ---- the ssh and scp commands
    args,         \* the command and its parsed flags and arguments
    pc,           \* where the command is
    exitCode,     \* the process's exit code once it has ended
    queries,      \* describe_instances calls issued so far
    fs,           \* the directories that exist
    \* ---- get_hosts_choice / read_numbers
    matches,      \* the candidates, as match_instances returned them
    line,         \* the last line read from standard input
    indices,      \* what read_numbers returned
    choices,      \* what get_hosts_choice returned
    echoed,       \* the error messages echoed to the error stream
    \* ---- run_op_for_hosts
    idx,          \* the position in choices of the next host to dispatch
    opCalls,      \* the host addresses handed to op so far
    children,     \* the child processes spawned so far
    \* ---- the parallel branch, line by line
    streams,      \* the stdout and stderr pipe of each child, with its OutputConsumer
    joinAt        \* the child the loop of lines 134-137 is at, and the call it is in

mvars == <<responses, qstate, future, doneOrder, mpc, call, result, firstResult>>

cvars == <<args, pc, exitCode, queries, fs>>

pvars == <<matches, line, indices, choices, echoed>>

dvars == <<idx, opCalls, children>>

rvars == <<streams, joinAt>>

vars == <<mvars, cvars, pvars, dvars, rvars>>

-----------------------------------------------------------------------------
(* Bounds of the model *)

\* instances (or failures) the inventory API returns over all attribute queries
MaxTotal == 2

\* characters in a line typed at the selection prompt
MaxLineLen == 3

\* lines a child process writes to each of its output streams
MaxLines == 1

-----------------------------------------------------------------------------
(* Python values *)

None == <<"None">>

\* ord(c) for the characters used
CharCode(c) ==
    CASE c = " " -> 32
      [] c = "," -> 44
      [] c = "-" -> 45
      [] c = "." -> 46
      [] c = "0" -> 48
      [] c = "1" -> 49
      [] c = "2" -> 50
      [] c = "3" -> 51
      [] c = "B" -> 66
      [] c = "b" -> 98
      [] c = "x" -> 120

\* s < t on str: lexicographic by code point (case-sensitive)
RECURSIVE StrLess(_, _)
StrLess(s, t) ==
    IF t = << >> THEN FALSE
    ELSE IF s = << >> THEN TRUE
    ELSE IF Head(s) = Head(t) THEN StrLess(Tail(s), Tail(t))
    ELSE CharCode(Head(s)) < CharCode(Head(t))

\* d.get(k, default)
Get(d, k, default) == IF k \in DOMAIN d THEN d[k] ELSE default

RECURSIVE Flatten(_)
\* itertools.chain.from_iterable over a list of lists
Flatten(ss) == IF ss = << >> THEN << >> ELSE Head(ss) \o Flatten(Tail(ss))

RECURSIVE SelectSeqOf(_, _)
\* the elements of s that are in the set keep, in order
SelectSeqOf(s, keep) ==
    IF s = << >> THEN << >>
    ELSE IF Head(s) \in keep THEN <<Head(s)>> \o SelectSeqOf(Tail(s), keep)
    ELSE SelectSeqOf(Tail(s), keep)

-----------------------------------------------------------------------------
(* The inventory: instances as describe_instances returns them *)

Tag(k, v) == [Key |-> k, Value |-> v]

I1 == [InstanceId |-> "i-1", Tags |-> <<Tag("Name", <<"b">>)>>,
       PrivateIpAddress |-> <<"1", ".", "1">>]
I2 == [InstanceId |-> "i-2", Tags |-> <<Tag("env", <<"x">>), Tag("Name", <<"B">>)>>,
       PrivateIpAddress |-> <<"1", ".", "2">>, PublicIpAddress |-> <<"2", ".", "2">>]
I3 == [InstanceId |-> "i-3", Tags |-> <<Tag("env", <<"x">>)>>,
       PublicIpAddress |-> <<"2", ".", "3">>]
I4 == [InstanceId |-> "i-4", Tags |-> <<Tag("Name", <<"b">>)>>]
I5 == [InstanceId |-> "i-5", Tags |-> <<Tag("Name", <<"b">>)>>,
       PublicIpAddress |-> <<"2", ".", "1">>]

\* the dict of the instance with id i
Dict(i) ==
    CASE i = "i-1" -> I1
      [] i = "i-2" -> I2
      [] i = "i-3" -> I3
      [] i = "i-4" -> I4
      [] i = "i-5" -> I5

Instances == {"i-1", "i-2", "i-3", "i-4", "i-5"}

DEFAULT_ATTRIBUTES ==
    << "tag:Name",
       "network-interface.addresses.association.public-ip",
       "network-interface.addresses.private-ip-address",
       "network-interface.private-dns-name" >>

Attrs == 1..Len(DEFAULT_ATTRIBUTES)

\* describe_instances raising (a network or auth error), in place of a response
ApiError == [Error |-> "ClientError"]

\* a call's outcome: a returned value, a raised exception, or none yet
Returned(v) == [ok |-> TRUE, val |-> v]
Raised == [ok |-> FALSE]
NoResult == [pending |-> TRUE]

\* a reservation of a response: a dict with its list of instances
Reservation(insts) == [Instances |-> insts]

RECURSIVE ResponsesOfSize(_)
\* every response['Reservations'] holding exactly n instances in non-empty reservations
ResponsesOfSize(n) ==
    IF n = 0 THEN { << >> }
    ELSE UNION { UNION { { <<Reservation(first)>> \o rest : rest \in ResponsesOfSize(n - k) }
                         : first \in [1..k -> Instances] }
                 : k \in 1..n }

\* the response dict of describe_instances
Response(reservations) == [Reservations |-> reservations]

\* the answers to one query that count c towards MaxTotal (a failure counts 1)
AnswersOfCost(c) ==
    { Response(rs) : rs \in ResponsesOfSize(c) } \cup (IF c = 1 THEN {ApiError} ELSE {})

RECURSIVE AnswerVectors(_, _)
\* the answers to n queries that count at most budget together
AnswerVectors(n, budget) ==
    IF n = 0 THEN { << >> }
    ELSE UNION { { <<r>> \o rest : r \in AnswersOfCost(c), rest \in AnswerVectors(n - 1, budget - c) }
                 : c \in 0..budget }

\* the fixed sets of API responses considered: one answer per attribute
ResponseSets == AnswerVectors(Len(DEFAULT_ATTRIBUTES), MaxTotal)

-----------------------------------------------------------------------------
(* Formatters (lines 26-28) *)

RECURSIVE TagDict(_, _)
\* {tag['Key']: tag['Value'] for tag in tags}.get(k, default): the last tag with key k wins
TagDict(tags, k) ==
    IF tags = << >> THEN None
    ELSE IF tags[Len(tags)].Key = k THEN tags[Len(tags)].Value
    ELSE TagDict(SubSeq(tags, 1, Len(tags) - 1), k)

name(i) ==
    LET v == TagDict(Get(Dict(i), "Tags", << >>), "Name")
    IN  IF v = None THEN << >> ELSE v

private_ip(i) == Get(Dict(i), "PrivateIpAddress", None)

public_ip(i) == Get(Dict(i), "PublicIpAddress", None)

-----------------------------------------------------------------------------
(* match_instances (lines 182-196) *)

\* _get_instances: the instances of every reservation of the response, flattened
_get_instances(response) ==
    IF response = ApiError THEN Raised
    ELSE LET reservations == response.Reservations
         IN  Returned(Flatten([r \in DOMAIN reservations |-> reservations[r].Instances]))

\* (mutant) the results taken as the queries complete, as with as_completed
RECURSIVE GatherAsCompleted(_, _, _)
GatherAsCompleted(fut, order, a) ==
    IF a > Len(order) THEN Returned(<< >>)
    ELSE IF fut[order[a]] = Raised THEN Raised
    ELSE LET rest == GatherAsCompleted(fut, order, a + 1)
         IN  IF rest = Raised THEN Raised ELSE Returned(<<fut[order[a]].val>> \o rest.val)

\* executor.map yields the results in the order of its inputs, the attribute list;
\* the first query (in that order) that raised re-raises when its result is taken
RECURSIVE Gather(_, _, _)
Gather(fut, order, a) ==
    IF a > Len(DEFAULT_ATTRIBUTES) THEN Returned(<< >>)
    ELSE IF fut[a] = Raised THEN Raised
    ELSE LET rest == Gather(fut, order, a + 1)
         IN  IF rest = Raised THEN Raised ELSE Returned(<<fut[a].val>> \o rest.val)

\* line 195: keep the instances that have either address key
HasAddress(i) == "PublicIpAddress" \in DOMAIN Dict(i) \/ "PrivateIpAddress" \in DOMAIN Dict(i)

\* (mutant) no address filter, as in the earliest variant of the program
ChainedUnfiltered(lists) == Flatten(lists)

RECURSIVE Dedup(_)
Dedup(s) ==
    IF s = << >> THEN << >>
    ELSE LET front == Dedup(SubSeq(s, 1, Len(s) - 1))
         IN  IF \E k \in DOMAIN front : front[k] = s[Len(s)] THEN front
             ELSE Append(front, s[Len(s)])

\* (mutant) each instance kept once, whatever the number of queries that return it
ChainedDedup(lists) ==
    Dedup(SelectSeqOf(Flatten(lists), {i \in Instances : "PublicIpAddress" \in DOMAIN Dict(i) \/ "PrivateIpAddress" \in DOMAIN Dict(i)}))

Chained(lists) == SelectSeqOf(Flatten(lists), {i \in Instances : HasAddress(i)})

\* sorted(..., key=name): a stable sort; x goes after every element whose key is
\* not greater than its own
\* (mutant) x goes before the elements whose key equals its own: not stable
RECURSIVE InsertBeforeEqual(_, _)
InsertBeforeEqual(sorted, x) ==
    IF sorted = << >> THEN <<x>>
    ELSE IF ~StrLess(name(Head(sorted)), name(x)) THEN <<x>> \o sorted
    ELSE <<Head(sorted)>> \o InsertBeforeEqual(Tail(sorted), x)

RECURSIVE InsertByName(_, _)
InsertByName(sorted, x) ==
    IF sorted = << >> THEN <<x>>
    ELSE IF StrLess(name(x), name(Head(sorted))) THEN <<x>> \o sorted
    ELSE <<Head(sorted)>> \o InsertByName(Tail(sorted), x)

RECURSIVE SortedByName(_)
SortedByName(s) ==
    IF s = << >> THEN << >>
    ELSE InsertByName(SortedByName(SubSeq(s, 1, Len(s) - 1)), s[Len(s)])

\* what match_instances returns (or raises) once every future is set
MatchOutcome(fut, order) ==
    LET lists == Gather(fut, order, 1)
    IN  IF lists = Raised THEN Raised ELSE Returned(SortedByName(Chained(lists.val)))

\* the command's variables while only match_instances is looked at
CommandIdle ==
    /\ args = [cmd |-> "match"]
    /\ pc = "match"
    /\ exitCode = -1
    /\ queries = 0
    /\ fs = {}
    /\ matches = << >>
    /\ line = None
    /\ indices = << >>
    /\ choices = << >>
    /\ echoed = {}
    /\ idx = 1
    /\ opCalls = << >>
    /\ children = << >>
    /\ streams = << >>
    /\ joinAt = <<1, "wait">>

MInit ==
    /\ CommandIdle
    /\ responses \in ResponseSets
    /\ qstate = [a \in Attrs |-> "idle"]
    /\ future = [a \in Attrs |-> NoResult]
    /\ doneOrder = << >>
    /\ mpc = "idle"
    /\ call = 1
    /\ result = NoResult
    /\ firstResult = NoResult

\* lines 189-194: executor.map submits one query per attribute
Submit ==
    /\ mpc = "idle"
    /\ mpc' = "mapping"
    /\ qstate' = [a \in Attrs |-> "queued"]
    /\ future' = [a \in Attrs |-> NoResult]
    /\ doneOrder' = << >>
    /\ UNCHANGED <<responses, call, result, firstResult>>

\* a pool thread takes a queued query and calls describe_instances
StartQuery(a) ==
    /\ mpc = "mapping"
    /\ qstate[a] = "queued"
    /\ qstate' = [qstate EXCEPT ![a] = "running"]
    /\ UNCHANGED <<responses, future, doneOrder, mpc, call, result, firstResult>>

\* the API answers; _get_instances returns (or raises) and the future is set
CompleteQuery(a) ==
    /\ mpc = "mapping"
    /\ qstate[a] = "running"
    /\ qstate' = [qstate EXCEPT ![a] = "done"]
    /\ future' = [future EXCEPT ![a] = _get_instances(responses[a])]
    /\ doneOrder' = Append(doneOrder, a)
    /\ UNCHANGED <<responses, mpc, call, result, firstResult>>

\* leaving the with block joins the pool (shutdown(wait=True))
PoolJoined == \A a \in Attrs : qstate[a] = "done"

\* lines 195-196: chain, filter, sort, return
ReturnMatches ==
    /\ mpc = "mapping"
    /\ PoolJoined
    /\ result' = MatchOutcome(future, doneOrder)
    /\ mpc' = IF result' = Raised THEN "raised" ELSE "returned"
    /\ UNCHANGED <<responses, qstate, future, doneOrder, call, firstResult>>

\* the caller calls match_instances again with the same region and query (an
\* exception aborts the command instead)
CallAgain ==
    /\ mpc = "returned"
    /\ call = 1
    /\ call' = 2
    /\ firstResult' = result
    /\ result' = NoResult
    /\ mpc' = "idle"
    /\ qstate' = [a \in Attrs |-> "idle"]
    /\ future' = [a \in Attrs |-> NoResult]
    /\ doneOrder' = << >>
    /\ UNCHANGED responses

MNext ==
    \/ Submit /\ UNCHANGED <<cvars, pvars, dvars, rvars>>
    \/ \E a \in Attrs : StartQuery(a) /\ UNCHANGED <<cvars, pvars, dvars, rvars>>
    \/ \E a \in Attrs : CompleteQuery(a) /\ UNCHANGED <<cvars, pvars, dvars, rvars>>
    \/ ReturnMatches /\ UNCHANGED <<cvars, pvars, dvars, rvars>>
    \/ CallAgain /\ UNCHANGED <<cvars, pvars, dvars, rvars>>

SpecMatch == MInit /\ [][MNext]_vars

-----------------------------------------------------------------------------
(* str operations used by read_numbers (lines 207-208) *)

RECURSIVE Split(_, _)
\* s.split(sep)
Split(s, sep) ==
    IF \E k \in DOMAIN s : s[k] = sep
    THEN LET k == CHOOSE k \in DOMAIN s : s[k] = sep /\ \A j \in 1..(k - 1) : s[j] # sep
         IN  <<SubSeq(s, 1, k - 1)>> \o Split(SubSeq(s, k + 1, Len(s)), sep)
    ELSE <<s>>

IsSpace(c) == c = " "

IsDigit(c) == c \in {"0", "1", "2", "3"}

RECURSIVE LStrip(_)
LStrip(s) == IF s # << >> /\ IsSpace(Head(s)) THEN LStrip(Tail(s)) ELSE s

RECURSIVE RStrip(_)
RStrip(s) ==
    IF s # << >> /\ IsSpace(s[Len(s)]) THEN RStrip(SubSeq(s, 1, Len(s) - 1)) ELSE s

\* s.strip()
Strip(s) == RStrip(LStrip(s))

RECURSIVE DigitsValue(_)
DigitsValue(ds) ==
    IF ds = << >> THEN 0
    ELSE DigitsValue(SubSeq(ds, 1, Len(ds) - 1)) * 10 + (CharCode(ds[Len(ds)]) - CharCode("0"))

\* int(s): surrounding whitespace ignored, an optional sign, then decimal digits;
\* anything else raises ValueError
PyInt(s) ==
    LET t == Strip(s)
        signed == t # << >> /\ Head(t) = "-"
        digits == IF signed THEN Tail(t) ELSE t
    IN  IF digits = << >> \/ \E k \in DOMAIN digits : ~IsDigit(digits[k]) THEN Raised
        ELSE Returned(IF signed THEN 0 - DigitsValue(digits) ELSE DigitsValue(digits))

\* list[i] with a Python (0-based, negative from the end) index
PyIndex(list, i) == IF i >= 0 THEN list[i + 1] ELSE list[Len(list) + i + 1]

-----------------------------------------------------------------------------
(* read_numbers (lines 204-216) and get_hosts_choice (lines 147-164) *)

LineChars == {"0", "1", "2", "3", ",", " ", "-"}

\* the lines that may be typed
Lines == UNION { [1..n -> LineChars] : n \in 0..MaxLineLen }

\* input() at end of input raises EOFError
EndOfFile == <<"EOF">>

\* ValueError(msg), raised inside the try block of read_numbers
ValueError(msg) == [ok |-> FALSE, msg |-> msg]

\* [int(c.strip()) for c in typed.split(',')]: the list, or the ValueError of int
ParsedNumbers(typed) ==
    LET fields == Split(typed, ",")
        parsed == [k \in DOMAIN fields |-> PyInt(Strip(fields[k]))]
    IN  IF \E k \in DOMAIN parsed : parsed[k] = Raised
        THEN ValueError("invalid literal for int()")
        ELSE Returned([k \in DOMAIN parsed |-> parsed[k].val])

\* (mutant) one pass of the loop without the check of 0 among other indices
ReadNumbersNoZeroCheck(typed, min_value, max_value) ==
    LET parsed == ParsedNumbers(typed)
    IN  IF ~parsed.ok THEN parsed
        ELSE IF ~(\A k \in DOMAIN parsed.val :
                     min_value <= parsed.val[k] /\ parsed.val[k] <= max_value)
        THEN ValueError("Invalid input")
        ELSE parsed

\* one pass of the loop of read_numbers over the line typed: the list it returns, or
\* the ValueError that takes the pass to the except clause (and the loop goes round)
ReadNumbersPass(typed, min_value, max_value) ==
    LET parsed == ParsedNumbers(typed)
    IN  IF ~parsed.ok THEN parsed
        ELSE IF ~(\A k \in DOMAIN parsed.val :
                     min_value <= parsed.val[k] /\ parsed.val[k] <= max_value)
        THEN ValueError("Invalid input")
        ELSE IF Len(parsed.val) # 1 /\ \E k \in DOMAIN parsed.val : parsed.val[k] = 0
        THEN ValueError("Invalid input")
        ELSE parsed

\* (mutant) the chosen instances in candidate order instead of the order listed
ChosenSorted(candidates, numbers) ==
    IF Len(numbers) = 1 /\ numbers[1] = 0 THEN candidates
    ELSE SelectSeqOf(candidates, {PyIndex(candidates, numbers[k] - 1) : k \in DOMAIN numbers})

\* lines 157-160: the candidates the indices stand for
Chosen(candidates, numbers) ==
    IF Len(numbers) = 1 /\ numbers[1] = 0 THEN candidates
    ELSE [k \in DOMAIN numbers |-> PyIndex(candidates, numbers[k] - 1)]

\* what match_instances comes to, over the sets of API responses considered
MatchOutcomes ==
    { MatchOutcome([a \in Attrs |-> _get_instances(rs[a])], << >>) : rs \in ResponseSets }

\* lines 148-155 and 162-163: the inventory is queried (outcome is what match_instances
\* comes to); no match ends the command, one match is chosen, more are listed in the menu
GetMatches(outcome) ==
    /\ pc = "query"
    /\ queries' = queries + Len(DEFAULT_ATTRIBUTES)
    /\ IF outcome = Raised
       THEN /\ pc' = "raised"
            /\ exitCode' = 1
            /\ UNCHANGED <<matches, choices, echoed>>
       ELSE IF outcome.val = << >>
       THEN /\ pc' = "exited"
            /\ exitCode' = 1
            /\ echoed' = echoed \cup {"No matches found"}
            /\ UNCHANGED <<matches, choices>>
       ELSE IF Len(outcome.val) > 1
       THEN /\ pc' = "prompt"
            /\ matches' = outcome.val
            /\ UNCHANGED <<exitCode, choices, echoed>>
       ELSE /\ pc' = "chosen"
            /\ matches' = outcome.val
            /\ choices' = <<outcome.val[1]>>
            /\ UNCHANGED <<exitCode, echoed>>
    /\ UNCHANGED <<args, fs, line, indices, dvars, mvars, rvars>>

\* line 207: input() returns the line typed
ReadLine(typed) ==
    /\ pc = "prompt"
    /\ line' = typed
    /\ pc' = "read"
    /\ UNCHANGED <<args, exitCode, queries, fs, matches, indices, choices, echoed, dvars, mvars, rvars>>

\* lines 208-216 and 157-161: the rest of the pass over the line read; a line that does
\* not pass is reported and dropped, and the loop is back at input()
CheckLine ==
    /\ pc = "read"
    /\ LET numbers == ReadNumbersPass(line, 0, Len(matches))
       IN  IF ~numbers.ok
           THEN /\ echoed' = echoed \cup {numbers.msg}
                /\ pc' = "prompt"
                /\ line' = None
                /\ UNCHANGED <<indices, choices>>
           ELSE /\ indices' = numbers.val
                /\ choices' = Chosen(matches, numbers.val)
                /\ pc' = "chosen"
                /\ UNCHANGED <<line, echoed>>
    /\ UNCHANGED <<args, exitCode, queries, fs, matches, dvars, mvars, rvars>>

\* line 207 at end of input: EOFError is not caught by the except clause
EndOfInput ==
    /\ pc = "prompt"
    /\ line' = EndOfFile
    /\ pc' = "raised"
    /\ exitCode' = 1
    /\ UNCHANGED <<args, queries, fs, matches, indices, choices, echoed, dvars, mvars, rvars>>

\* line 164: get_hosts_choice returns its choices; its locals are gone
ReturnChoices ==
    /\ pc = "chosen"
    /\ pc' = "dispatch"
    /\ matches' = << >>
    /\ line' = None
    /\ indices' = << >>
    /\ UNCHANGED <<args, exitCode, queries, fs, choices, echoed, dvars, mvars, rvars>>

\* the match variables while the commands are looked at
MatchIdle ==
    /\ responses = << >>
    /\ qstate = << >>
    /\ future = << >>
    /\ doneOrder = << >>
    /\ mpc = "idle"
    /\ call = 1
    /\ result = NoResult
    /\ firstResult = NoResult

\* get_hosts_choice is entered from run_op_for_hosts (line 119)
PInit ==
    /\ MatchIdle
    /\ args = [cmd |-> "choice"]
    /\ pc = "query"
    /\ exitCode = -1
    /\ queries = 0
    /\ fs = {}
    /\ matches = << >>
    /\ line = None
    /\ indices = << >>
    /\ choices = << >>
    /\ echoed = {}
    /\ idx = 1
    /\ opCalls = << >>
    /\ children = << >>
    /\ streams = << >>
    /\ joinAt = <<1, "wait">>

PNext ==
    \/ pc = "query" /\ \E outcome \in MatchOutcomes : GetMatches(outcome)
    \/ pc = "prompt" /\ \E typed \in Lines : ReadLine(typed)
    \/ CheckLine
    \/ EndOfInput
    \/ ReturnChoices

SpecPrompt == PInit /\ [][PNext]_vars

-----------------------------------------------------------------------------
(* The ssh and scp commands (lines 58-112) *)

\* bool(x) of an option value: None and '' are false
Truthy(x) == x # None /\ x # << >>

\* a literal word of a command line, kept whole
Lit(w) == <<w>>

\* '{}'.format(x)
Str(x) == IF x = None THEN <<"N", "o", "n", "e">> ELSE x

\* the outcome of validate_identity_parameters: "ok", or the message it dies with
IdentityOk == "ok"

\* (mutant) the second check without the user name
validate_identity_no_user(user, key, ssh_config) ==
    IF ~Truthy(key) /\ ~Truthy(ssh_config)
    THEN "Must supply either SSH key or SSH config file"
    ELSE IF Truthy(ssh_config) /\ Truthy(key)
    THEN "The ssh-config option is mutually exclusive with the user and key options"
    ELSE IdentityOk

\* lines 219-223
validate_identity_parameters(user, key, ssh_config) ==
    IF ~Truthy(key) /\ ~Truthy(ssh_config)
    THEN "Must supply either SSH key or SSH config file"
    ELSE IF Truthy(ssh_config) /\ (Truthy(user) \/ Truthy(key))
    THEN "The ssh-config option is mutually exclusive with the user and key options"
    ELSE IdentityOk

\* os.path.isdir(path) for a str path
IsDir(path, dirs) == path \in dirs

\* os.path.join(a, b)
PathJoin(a, b) ==
    IF b # << >> /\ Head(b) = "/" THEN b
    ELSE IF a = << >> \/ a[Len(a)] = "/" THEN a \o b
    ELSE a \o <<"/">> \o b

RECURSIVE Replace(_, _, _)
\* s.replace(old, new) for one-character old and new
Replace(s, old, new) ==
    IF s = << >> THEN << >>
    ELSE <<IF Head(s) = old THEN new ELSE Head(s)>> \o Replace(Tail(s), old, new)

\* lines 90-91
format_scp_remote_host_path(user, host, path) ==
    IF Truthy(user) THEN user \o <<"@">> \o Str(host) \o <<":">> \o Str(path)
    ELSE Str(host) \o <<":">> \o Str(path)

\* what a call of op comes to: the command list and the directories after it, or an
\* exception
Built(command, dirs) == [ok |-> TRUE, command |-> command, dirs |-> dirs]

\* lines 61-67: op of the ssh command
ssh_op(a, host, host_count, dirs) ==
    Built(<<Lit("ssh"), Lit("-oStrictHostKeyChecking=no")>>
          \o (IF Truthy(a.key) THEN <<Lit("-i"), a.key>> ELSE <<Lit("-F"), a.ssh_config>>)
          \o (IF Truthy(a.user) THEN <<Lit("-l"), a.user>> ELSE << >>)
          \o <<host>> \o a.extra,
          dirs)

\* (mutant) the per-host directory is named but not created
scp_op_no_mkdir(a, host, host_count, dirs) ==
    LET head == <<Lit("scp"), Lit("-oStrictHostKeyChecking=no")>>
                \o (IF Truthy(a.key) THEN <<Lit("-i"), a.key>> ELSE <<Lit("-F"), a.ssh_config>>)
                \o a.extra
    IN  IF a.download
        THEN IF host_count > 1
             THEN IF host = None THEN Raised
                  ELSE LET full_target == PathJoin(a.target, Replace(host, ".", "-"))
                       IN  Built(head \o <<format_scp_remote_host_path(a.user, host, a.source),
                                           full_target>>, dirs)
             ELSE Built(head \o <<format_scp_remote_host_path(a.user, host, a.source),
                                  a.target>>, dirs)
        ELSE Built(head \o <<a.source, format_scp_remote_host_path(a.user, host, a.target)>>,
                   dirs)

\* lines 93-110: op of the scp command.  host.replace raises on None (AttributeError),
\* os.mkdir raises when the directory exists (OSError)
scp_op(a, host, host_count, dirs) ==
    LET head == <<Lit("scp"), Lit("-oStrictHostKeyChecking=no")>>
                \o (IF Truthy(a.key) THEN <<Lit("-i"), a.key>> ELSE <<Lit("-F"), a.ssh_config>>)
                \o a.extra
    IN  IF a.download
        THEN IF host_count > 1
             THEN IF host = None THEN Raised
                  ELSE LET full_target == PathJoin(a.target, Replace(host, ".", "-"))
                       IN  IF full_target \in dirs THEN Raised
                           ELSE Built(head \o <<format_scp_remote_host_path(a.user, host, a.source),
                                                full_target>>,
                                      dirs \cup {full_target})
             ELSE Built(head \o <<format_scp_remote_host_path(a.user, host, a.source),
                                  a.target>>, dirs)
        ELSE Built(head \o <<a.source, format_scp_remote_host_path(a.user, host, a.target)>>,
                   dirs)

\* the op closure of the command under way
op(a, host, host_count, dirs) ==
    IF a.cmd = "ssh" THEN ssh_op(a, host, host_count, dirs)
    ELSE scp_op(a, host, host_count, dirs)

\* lines 59 and 85-88: the flags are validated, and for a download the target;
\* os.path.isdir(None) raises TypeError
Validate ==
    /\ pc = "start"
    /\ LET verdict == validate_identity_parameters(args.user, args.key, args.ssh_config)
       IN  IF verdict # IdentityOk
           THEN /\ pc' = "exited"
                /\ exitCode' = 1
                /\ echoed' = echoed \cup {verdict}
           ELSE IF args.cmd = "scp" /\ args.download /\ args.target = None
           THEN /\ pc' = "raised"
                /\ exitCode' = 1
                /\ UNCHANGED echoed
           ELSE IF args.cmd = "scp" /\ args.download /\ ~IsDir(args.target, fs)
           THEN /\ pc' = "exited"
                /\ exitCode' = 1
                /\ echoed' = echoed \cup {"Download target must be an existing directory"}
           ELSE /\ pc' = "query"
                /\ UNCHANGED <<exitCode, echoed>>
    /\ UNCHANGED <<args, queries, fs, matches, line, indices, choices, dvars, mvars, rvars>>

-----------------------------------------------------------------------------
(* run_op_for_hosts (lines 115-144) *)

\* line 116
get_ip(a, i) == IF a.prefer_public_ip THEN public_ip(i) ELSE private_ip(i)

\* line 121: the parallel branch is taken
InParallel == args.parallel /\ Len(choices) > 1

\* subprocess.Popen and subprocess.call raise TypeError on an argument that is no str
Spawnable(command) == \A k \in DOMAIN command : command[k] # None

Child(host, command, dirs) ==
    [host |-> host, command |-> command, state |-> "running", dirs |-> dirs]

\* lines 126-133 and 139-144, one pass of either loop: the address is taken, op builds
\* the command (an scp download from several hosts makes its directory), and the child
\* is spawned; subprocess.call then waits for it, the parallel loop goes on
DispatchNext ==
    /\ pc = "dispatch"
    /\ idx <= Len(choices)
    /\ LET ip == get_ip(args, choices[idx])
           built == op(args, ip, Len(choices), fs)
       IN  /\ opCalls' = Append(opCalls, ip)
           /\ IF built = Raised
              THEN /\ pc' = "raised"
                   /\ exitCode' = 1
                   /\ UNCHANGED <<fs, idx, children>>
              ELSE IF ~Spawnable(built.command)
              THEN /\ pc' = "raised"
                   /\ exitCode' = 1
                   /\ fs' = built.dirs
                   /\ UNCHANGED <<idx, children>>
              ELSE /\ fs' = built.dirs
                   /\ children' = Append(children, Child(ip, built.command, built.dirs))
                   /\ UNCHANGED exitCode
                   /\ IF InParallel
                      THEN /\ idx' = idx + 1
                           /\ pc' = IF idx = Len(choices) THEN "joining" ELSE "dispatch"
                      ELSE /\ pc' = "waiting"
                           /\ UNCHANGED idx
    /\ UNCHANGED <<args, queries, pvars, mvars>>

\* a child process ends
ChildExit(k) ==
    /\ k \in DOMAIN children
    /\ children[k].state = "running"
    /\ children' = [children EXCEPT ![k].state = "exited"]
    /\ UNCHANGED <<cvars, pvars, idx, opCalls, mvars, rvars>>

\* line 144: subprocess.call returns once its child has ended; after the last host the
\* command is over
CallReturns ==
    /\ pc = "waiting"
    /\ children[Len(children)].state = "exited"
    /\ idx' = idx + 1
    /\ pc' = IF idx = Len(choices) THEN "done" ELSE "dispatch"
    /\ exitCode' = IF idx = Len(choices) THEN 0 ELSE exitCode
    /\ UNCHANGED <<args, queries, fs, pvars, opCalls, children, mvars, rvars>>

\* lines 134-137: every child is waited for and its two consumers joined
JoinAll ==
    /\ pc = "joining"
    /\ \A k \in DOMAIN children : children[k].state = "exited"
    /\ pc' = "done"
    /\ exitCode' = 0
    /\ UNCHANGED <<args, queries, fs, pvars, dvars, mvars, rvars>>

\* the command lines
ArgSets ==
    { [cmd |-> c, user |-> u, key |-> k, ssh_config |-> f, prefer_public_ip |-> p,
       parallel |-> par, download |-> d, source |-> src, target |-> t, extra |-> << >>] :
        c \in {"ssh", "scp"}, u \in {None, <<"u">>}, k \in {None, << >>, <<"k">>},
        f \in {None, <<"c">>}, p \in BOOLEAN, par \in BOOLEAN, d \in BOOLEAN,
        src \in {None, <<"s">>}, t \in {None, <<"o">>} }

\* ssh has neither a download flag nor source and target; scp requires a source
WellFormed(a) ==
    IF a.cmd = "ssh" THEN ~a.download /\ a.source = None /\ a.target = None
    ELSE a.source # None

\* the lines typed at the prompt that the commands are followed with
TypedLines ==
    { <<"0">>, <<"1">>, <<"2">>, <<"3">>, <<"1", ",", "2">>, <<"2", ",", "1">>,
      <<"1", ",", "1">>, <<"0", ",", "1">>, <<"x">> }

CInit ==
    /\ MatchIdle
    /\ args \in {a \in ArgSets : WellFormed(a)}
    /\ pc = "start"
    /\ exitCode = -1
    /\ queries = 0
    /\ fs \in IF args.cmd = "scp" /\ args.download
              THEN { {}, {<<"o">>}, {<<"o">>, <<"o", "/", "1", "-", "1">>} }
              ELSE { {<<"o">>} }
    /\ matches = << >>
    /\ line = None
    /\ indices = << >>
    /\ choices = << >>
    /\ echoed = {}
    /\ idx = 1
    /\ opCalls = << >>
    /\ children = << >>
    /\ streams = << >>
    /\ joinAt = <<1, "wait">>

Next ==
    \/ Validate
    \/ pc = "query" /\ \E outcome \in MatchOutcomes : GetMatches(outcome)
    \/ pc = "prompt" /\ \E typed \in TypedLines : ReadLine(typed)
    \/ CheckLine
    \/ EndOfInput
    \/ ReturnChoices
    \/ DispatchNext /\ UNCHANGED rvars
    \/ \E k \in DOMAIN children : ChildExit(k)
    \/ CallReturns
    \/ JoinAll

Spec == CInit /\ [][Next]_vars

-----------------------------------------------------------------------------
(* The parallel branch (lines 121-137) with OutputConsumer (lines 226-241), line by
   line.  A pipe is modelled by the lines written to it and the lines read from it;
   its capacity is not modelled. *)

StreamNames == {"out", "err"}

\* a pipe just opened by Popen, and the OutputConsumer thread started on it
NewStream == [written |-> 0, read |-> 0, relayed |-> 0, consumer |-> "running"]

\* lines 131-133: the two consumers of the child just spawned are started
StartConsumers ==
    /\ streams' = IF Len(children') > Len(children)
                  THEN Append(streams, [n \in StreamNames |-> NewStream])
                  ELSE streams
    /\ UNCHANGED joinAt

\* a child writes a line to one of its streams
ChildWrites(k, n) ==
    /\ k \in DOMAIN children
    /\ children[k].state = "running"
    /\ streams[k][n].written < MaxLines
    /\ streams' = [streams EXCEPT ![k][n].written = @ + 1]
    /\ UNCHANGED <<cvars, pvars, dvars, mvars, joinAt>>

\* '[{:<15}] {}'.format(ip, line): Python 3 raises TypeError on a None ip (None has no
\* format spec), Python 2 formats it
FormatRaises(python, ip) == python = 3 /\ ip = None

\* iter(self.input.readline, b'') ends: nothing is left in the pipe and its write end is
\* closed (the child has ended)
AtEndOfStream(stream, ended) == stream.read = stream.written /\ ended

\* lines 237-238, one pass: a line is read and written, prefixed, to the parent's
\* stream; if the prefix cannot be formatted the thread dies with the exception
ConsumerRelays(k, n) ==
    /\ k \in DOMAIN streams
    /\ streams[k][n].consumer = "running"
    /\ streams[k][n].read < streams[k][n].written
    /\ streams' = IF FormatRaises(args.python, children[k].host)
                  THEN [streams EXCEPT ![k][n].read = @ + 1, ![k][n].consumer = "died"]
                  ELSE [streams EXCEPT ![k][n].read = @ + 1, ![k][n].relayed = @ + 1]
    /\ UNCHANGED <<cvars, pvars, dvars, mvars, joinAt>>

\* line 237: readline returns b'' and consume_output returns
ConsumerEnds(k, n) ==
    /\ k \in DOMAIN streams
    /\ streams[k][n].consumer = "running"
    /\ AtEndOfStream(streams[k][n], children[k].state = "exited")
    /\ streams' = [streams EXCEPT ![k][n].consumer = "done"]
    /\ UNCHANGED <<cvars, pvars, dvars, mvars, joinAt>>

\* Thread.join returns for a thread that has ended, whichever way
Joinable(stream) == stream.consumer \in {"done", "died"}

\* line 135: p.wait() returns
WaitReturns ==
    /\ pc = "joining"
    /\ joinAt[2] = "wait"
    /\ children[joinAt[1]].state = "exited"
    /\ joinAt' = <<joinAt[1], "out">>
    /\ UNCHANGED <<cvars, pvars, dvars, mvars, streams>>

\* line 136: p['out'].join() returns
JoinOutReturns ==
    /\ pc = "joining"
    /\ joinAt[2] = "out"
    /\ Joinable(streams[joinAt[1]]["out"])
    /\ joinAt' = <<joinAt[1], "err">>
    /\ UNCHANGED <<cvars, pvars, dvars, mvars, streams>>

\* line 137: p['err'].join() returns; after the last child run_op_for_hosts returns
JoinErrReturns ==
    /\ pc = "joining"
    /\ joinAt[2] = "err"
    /\ Joinable(streams[joinAt[1]]["err"])
    /\ IF joinAt[1] = Len(children)
       THEN /\ pc' = "done"
            /\ exitCode' = 0
            /\ UNCHANGED joinAt
       ELSE /\ joinAt' = <<joinAt[1] + 1, "wait">>
            /\ UNCHANGED <<pc, exitCode>>
    /\ UNCHANGED <<args, queries, fs, pvars, dvars, mvars, streams>>

\* the commands whose parallel branch is followed, each under Python 2 and Python 3
ParallelArgSets ==
    { [cmd |-> c[1], user |-> None, key |-> <<"k">>, ssh_config |-> None,
       prefer_public_ip |-> p, parallel |-> TRUE, download |-> c[2], source |-> c[3],
       target |-> c[4], extra |-> << >>, python |-> v] :
        c \in { <<"ssh", FALSE, None, None>>, <<"scp", FALSE, <<"s">>, <<"o">>>>,
                <<"scp", TRUE, <<"s">>, <<"o">>>> },
        p \in BOOLEAN, v \in {2, 3} }

\* the selections followed: instances with both addresses, with one, and one twice
ParallelChoices ==
    { <<"i-2", "i-2">>, <<"i-2", "i-1">>, <<"i-5", "i-2">>, <<"i-1", "i-5">> }

\* line 121 is reached with the parallel flag and more than one choice
RInit ==
    /\ MatchIdle
    /\ args \in ParallelArgSets
    /\ pc = "dispatch"
    /\ exitCode = -1
    /\ queries = Len(DEFAULT_ATTRIBUTES)
    /\ fs = {<<"o">>}
    /\ matches = << >>
    /\ line = None
    /\ indices = << >>
    /\ choices \in ParallelChoices
    /\ echoed = {}
    /\ idx = 1
    /\ opCalls = << >>
    /\ children = << >>
    /\ streams = << >>
    /\ joinAt = <<1, "wait">>

RNext ==
    \/ DispatchNext /\ StartConsumers
    \/ \E k \in DOMAIN children : ChildExit(k)
    \/ \E k \in DOMAIN children, n \in StreamNames : ChildWrites(k, n)
    \/ \E k \in DOMAIN children, n \in StreamNames : ConsumerRelays(k, n)
    \/ \E k \in DOMAIN children, n \in StreamNames : ConsumerEnds(k, n)
    \/ WaitReturns
    \/ JoinOutReturns
    \/ JoinErrReturns

SpecParallel == RInit /\ [][RNext]_vars

-----------------------------------------------------------------------------
(* Properties of the parallel branch, checked under SpecParallel *)

\* C8 as claimed: when the parallel branch returns, one child was spawned per selected
\* target, every child has ended, both consumers of every child have ended at end of
\* stream, and every line a child wrote has been relayed
C8_ReturnsAfterAllRelayed ==
    pc = "done" =>
        /\ Len(children) = Len(choices)
        /\ Len(streams) = Len(children)
        /\ \A k \in DOMAIN children :
              /\ children[k].state = "exited"
              /\ \A n \in StreamNames :
                    /\ streams[k][n].consumer = "done"
                    /\ streams[k][n].relayed = streams[k][n].written

-----------------------------------------------------------------------------
(* Properties of the ssh and scp commands, checked under Spec *)

Supplied(option) == option # None /\ option # << >>

\* neither a key nor an ssh-config file, or an ssh-config file with a user name or a key
BadIdentity ==
    \/ ~Supplied(args.key) /\ ~Supplied(args.ssh_config)
    \/ Supplied(args.ssh_config) /\ (Supplied(args.user) \/ Supplied(args.key))

\* the command ended with exit code 1, no inventory query issued and no child spawned
EndedBeforeQuery ==
    /\ pc \in {"exited", "raised"}
    /\ exitCode = 1
    /\ queries = 0
    /\ children = << >>

\* the command has reached the inventory query
ReachedQuery == pc = "query" \/ queries > 0

\* an scp download whose target is no existing directory
BadDownloadTarget ==
    /\ args.cmd = "scp"
    /\ args.download
    /\ args.target = None \/ args.target \notin fs

\* C1 as claimed: once the flags are validated, a bad combination has ended the command
\* with exit code 1 before any query or child, and every other combination has
\* reached the inventory query
C1_ValidOrExit ==
    pc # "start" =>
        IF BadIdentity THEN pc = "exited" /\ EndedBeforeQuery ELSE ReachedQuery

\* C1 as amended: as claimed, except that an scp download whose target is no existing
\* directory also ends with exit code 1 before any query or child
C1_ValidOrExitOrBadTarget ==
    pc # "start" =>
        IF BadIdentity THEN pc = "exited" /\ EndedBeforeQuery
        ELSE IF BadDownloadTarget THEN EndedBeforeQuery
        ELSE ReachedQuery

\* C1 witness: an ssh-config file supplied together with a key was rejected
C1_Witness ==
    /\ pc = "exited"
    /\ Supplied(args.ssh_config)
    /\ Supplied(args.key)
    /\ ~Supplied(args.user)
    /\ queries = 0

\* C1 witness, second case: exactly one of key and ssh-config, and the query is reached
C1_WitnessValid ==
    /\ pc = "query"
    /\ Supplied(args.ssh_config)
    /\ args.cmd = "scp"

\* the last argument of a child's command: the destination of an scp
Destination(child) == child.command[Len(child.command)]

\* dest is target/<host with every '.' replaced by '-'>
IsPerHostDir(dest, target, host) ==
    /\ Len(dest) = Len(target) + 1 + Len(host)
    /\ SubSeq(dest, 1, Len(target)) = target
    /\ dest[Len(target) + 1] = "/"
    /\ \A k \in 1..Len(host) :
          dest[Len(target) + 1 + k] = (IF host[k] = "." THEN "-" ELSE host[k])

\* dest is a remote path <...>:<target>
IsRemoteOf(dest, target) ==
    /\ Len(dest) > Len(target)
    /\ SubSeq(dest, Len(dest) - Len(target) + 1, Len(dest)) = target
    /\ dest[Len(dest) - Len(target)] = ":"

C10_HostPopulated ==
    \A k \in DOMAIN opCalls :
        /\ opCalls[k] # None
        /\ opCalls[k] \in {public_ip(choices[k]), private_ip(choices[k])}

-----------------------------------------------------------------------------
(* Properties of the selection prompt, checked under SpecPrompt *)

\* the comma-separated values of a line
Fields(typed) == Split(typed, ",")

\* the integers the values of a line stand for (where every value parses)
Values(typed) == [k \in DOMAIN Fields(typed) |-> PyInt(Fields(typed)[k]).val]

\* every value parses as an integer within [0, n], and the set of values is {0} or
\* holds no 0
Acceptable(typed, n) ==
    /\ \A k \in DOMAIN Fields(typed) : PyInt(Fields(typed)[k]) # Raised
    /\ \A k \in DOMAIN Values(typed) : 0 <= Values(typed)[k] /\ Values(typed)[k] <= n
    /\ LET set == {Values(typed)[k] : k \in DOMAIN Values(typed)}
       IN  set = {0} \/ 0 \notin set

\* C2: with more than one candidate, a line is accepted only if it is acceptable; any
\* other line read is rejected: the process goes on, nothing is selected, and the
\* prompt reads again
C2_PromptValidates ==
    /\ [](pc = "chosen" /\ Len(matches) > 1 => Acceptable(line, Len(matches)))
    /\ [][(pc = "read" /\ ~Acceptable(line, Len(matches)))
             => (pc' = "prompt" /\ choices' = << >> /\ indices' = << >> /\ exitCode' = -1)]_vars

\* C2 witness: with two candidates a line was rejected with "Invalid input", the
\* prompt read again, and the line 2,1 was accepted
C2_Witness ==
    /\ pc = "chosen"
    /\ Len(matches) = 2
    /\ "Invalid input" \in echoed
    /\ line = <<"2", ",", "1">>

\* C3: after an accepted line, the choices are all the candidates in their order if
\* the line is 0, and otherwise the candidates at the listed 1-based indices in the
\* order listed, one per index
C3_ChoicesAsListed ==
    (pc = "chosen" /\ Len(matches) > 1) =>
        IF Values(line) = <<0>> THEN choices = matches
        ELSE /\ Len(choices) = Len(Values(line))
             /\ \A k \in DOMAIN choices : choices[k] = matches[Values(line)[k]]

\* C3 witness: two different candidates chosen in the reverse of their order
C3_Witness ==
    /\ pc = "chosen"
    /\ line = <<"2", ",", "1">>
    /\ matches[1] # matches[2]
    /\ choices = <<matches[2], matches[1]>>

\* C3 witness, second case: the line 0 chose every candidate
C3_WitnessAll ==
    /\ pc = "chosen"
    /\ line = <<"0">>
    /\ Len(choices) = 2

-----------------------------------------------------------------------------
(* Properties of match_instances, checked under SpecMatch *)

\* the instances the API returned, in discovery order: attribute-list order first,
\* then the order within each query's response
Discovered ==
    Flatten([a \in Attrs |->
        IF responses[a] = ApiError THEN << >>
        ELSE Flatten([r \in DOMAIN responses[a].Reservations |->
                        responses[a].Reservations[r].Instances])])

Populated(addr) == addr # None

RECURSIVE Count(_, _)
Count(s, x) ==
    IF s = << >> THEN 0 ELSE (IF Head(s) = x THEN 1 ELSE 0) + Count(Tail(s), x)

RECURSIVE WithName(_, _)
\* the elements of s whose derived name is n, in order
WithName(s, n) ==
    IF s = << >> THEN << >>
    ELSE IF name(Head(s)) = n THEN <<Head(s)>> \o WithName(Tail(s), n)
    ELSE WithName(Tail(s), n)

RECURSIVE WithAddress(_)
WithAddress(s) ==
    IF s = << >> THEN << >>
    ELSE IF Populated(public_ip(Head(s))) \/ Populated(private_ip(Head(s)))
         THEN <<Head(s)>> \o WithAddress(Tail(s))
    ELSE WithAddress(Tail(s))

\* C4: every instance of the list match_instances returns has a public or a private
\* address; an instance lacking both is never in it
C4_EveryMatchHasAddress ==
    mpc = "returned" =>
        \A k \in DOMAIN result.val :
            Populated(public_ip(result.val[k])) \/ Populated(private_ip(result.val[k]))

\* C4 witness: the API returned an instance without any address beside one with an
\* address, and match_instances returned
C4_Witness ==
    /\ mpc = "returned"
    /\ \E k \in DOMAIN Discovered : Discovered[k] = "i-4"
    /\ Len(result.val) >= 1

\* C5: the returned list is ascending by derived name, and the instances of equal name
\* are in discovery order
C5_SortedStable ==
    mpc = "returned" =>
        LET discovered == WithAddress(Discovered)
        IN  /\ \A j, k \in DOMAIN result.val :
                   j < k => ~StrLess(name(result.val[k]), name(result.val[j]))
            /\ \A n \in {name(i) : i \in Instances} :
                   WithName(result.val, n) = WithName(discovered, n)

\* C5 witness: two different instances of equal name are returned, the one with the
\* higher id discovered (and returned) first
C5_Witness ==
    /\ mpc = "returned"
    /\ result.val = <<"i-5", "i-1">>

\* C6 as claimed: no two entries of the returned list are the same instance
C6_NoDuplicates ==
    mpc = "returned" =>
        \A j, k \in DOMAIN result.val : j # k => result.val[j] # result.val[k]

\* C6 as amended: the results are merged without deduplication: an instance with an
\* address is in the returned list once per occurrence in the queries' responses, and
\* an instance without any address is not in it
C6_OncePerOccurrence ==
    mpc = "returned" =>
        LET discovered == Discovered
        IN  \A i \in Instances :
                Count(result.val, i) =
                    IF Populated(public_ip(i)) \/ Populated(private_ip(i))
                    THEN Count(discovered, i) ELSE 0

\* C6 witness: an instance returned by two different attribute queries is twice in the
\* returned list
C6_Witness ==
    /\ mpc = "returned"
    /\ \E a, b \in Attrs :
          /\ a # b
          /\ future[a] = Returned(<<"i-2">>)
          /\ future[b] = Returned(<<"i-2">>)
    /\ Count(result.val, "i-2") = 2

\* C7: the second of two successive calls returns the list the first returned, whatever
\* the order the queries started and completed in, and a call returns only once every
\* query has completed
C7_Deterministic ==
    /\ (mpc = "returned" /\ call = 2) => result = firstResult
    /\ mpc = "returned" => \A a \in Attrs : qstate[a] = "done" /\ future[a] # NoResult

\* C7 witness: the second call returned two instances found by different queries, its
\* queries having completed in the reverse of the order they were submitted in
C7_Witness ==
    /\ mpc = "returned"
    /\ call = 2
    /\ doneOrder = <<4, 3, 2, 1>>
    /\ Len(result.val) = 2
    /\ \E a \in Attrs : future[a].val # << >> /\ Len(future[a].val) = 1

=============================================================================
